---- MODULE Spec2Model ----
(***************************************************************************)
(* A model of gen_proto.py, the LoDB protobuf generator: the upward        *)
(* toolchain search (find_nanopb_dir), one generation request              *)
(* (generate_protobuf_files), the command-line run over the matched files  *)
(* (main), and the build hook: the registration of the pre-build action    *)
(* (register_protobufs) and its invocation (generate_protobufs).           *)
(*                                                                         *)
(* The filesystem is a chain of directories 0..MaxDepth, 0 being the root  *)
(* and d-1 the parent of d.  A file is a modification time, or NoFile.      *)
(* The generator executable is an external process: what it writes and     *)
(* the status it exits with are chosen nondeterministically.               *)
(***************************************************************************)
EXTENDS Integers, Sequences, FiniteSets, TLC

\* ---------------------------------------------------------------- bounds
\* Deepest directory level of the chain (the root is level 0).
MaxDepth == 6
\* Most toolchain-named entries a searched tree holds (FindSpec).
MaxEntries == 2
\* Most files one command-line run matches.
MaxFiles == 3
\* Latest modification time a file gets.
MaxTime == 3
\* Most actions the scheduler invokes in a row (HookSpec, RegSpec).
MaxCalls == 2
\* Most targets of a collection passed to register_protobufs (RegSpec).
MaxTargets == 2

\* ------------------------------------------------------ program constants
\* for _ in range(5)
SearchDepth == 5

None == "None"
\* A directory path that is None.
NoDir == <<0 - 1, None>>
\* The modification time of a file that does not exist.
NoFile == 0 - 1
\* original_dir before line 189 assigns it.
Unbound == 0 - 1
\* The exit status of a process that has not exited.
NoExit == 0 - 1

Dirs == 0..MaxDepth
\* for dirname in ["nanopb-0.4.9", "nanopb"]
DirNames == <<"nanopb-0.4.9", "nanopb">>
NameSet == {DirNames[i] : i \in 1..Len(DirNames)}
\* What a toolchain-named entry of a directory is: nothing, a plain file, a
\* directory without generator-bin/protoc (protoc.exe on Windows), or a
\* directory with it.
Kinds == {"absent", "file", "noexe", "ok"}

VARIABLES
    \* the filesystem
    tree,        \* tree[d][n]: the entry named n of directory d
    srcM,        \* srcM[p]: the .proto file p
    sideM,       \* sideM[p]: the sidecar p.options beside the .proto file
    optM,        \* the options file the caller supplies
    hdrM,        \* hdrM[p]: p.pb.h in the output directory
    cppM,        \* cppM[p]: p.pb.cpp in the output directory
    outExists,   \* whether the supplied output directory exists
    cwd,         \* the process working directory
    clock,       \* the time the next write is stamped with
    \* find_nanopb_dir, run on its own
    fstart, fcur, fiter, fres, fpc, fseen,
    \* the caller: main, or a library caller
    args, matched, idx, success, mpc, exitCode, calls,
    \* one request: generate_protobuf_files
    rpath, rpc, optEff, nanoDir, origDir, status, launches,
    \* history: the working directory and the files when the current
    \* request was called, the requests made and how they ended
    cwdBefore, fsBefore, attempts, outcomes,
    \* the build hook: register_protobufs and the action it attaches
    env,           \* the environment register_protobufs is called with
    object_target, \* its target argument: one target or a collection
    params,        \* its proto_path, options_path, output_dir, nanopb_dir
    regpc,         \* where the registration is
    pre,           \* pre[t]: the pre-build actions attached to target t
    aenv,          \* the environment the scheduler passes to an action
    invoked,       \* the targets whose action was invoked, in order
    hookRet        \* what each invocation returned

findVars == <<fstart, fcur, fiter, fres, fpc, fseen>>
fsVars == <<srcM, sideM, optM, hdrM, cppM, outExists, cwd, clock>>
mainVars == <<args, matched, idx, success, mpc, exitCode, calls>>
reqVars == <<rpath, rpc, optEff, nanoDir, origDir, status, launches>>
histVars == <<cwdBefore, fsBefore, attempts, outcomes>>
hookVars == <<env, object_target, params, regpc, pre, aenv, invoked, hookRet>>
vars == <<tree, findVars, fsVars, mainVars, reqVars, histVars, hookVars>>

\* The files and directories a request reads or writes, with their times.
Files == <<srcM, sideM, optM, hdrM, cppM, outExists>>

\* ------------------------------------------------------------ paths
\* os.path.dirname of a directory of the chain: the root is its own parent.
Parent(d) == IF d = 0 THEN 0 ELSE d - 1

RECURSIVE Up(_, _)
\* The directory k ".." components above d.
Up(d, k) == IF k = 0 THEN d ELSE Up(Parent(d), k - 1)

\* ------------------------------------------------------ find_nanopb_dir
\* os.path.exists(candidate) and os.path.isdir(candidate)
IsDir(t, d, n) == t[d][n] \in {"noexe", "ok"}

\* The check of line 59 left out: any candidate directory is taken.
HasProtocUnchecked(t, d, n) == TRUE

\* os.path.exists(protoc_path), for a candidate that is a directory
HasProtoc(t, d, n) == t[d][n] = "ok"

\* The inner loop over the two names at one level: the first name whose
\* candidate is a directory holding the generator, or None.
LevelMatch(t, d) ==
    IF IsDir(t, d, DirNames[1]) /\ HasProtoc(t, d, DirNames[1])
    THEN DirNames[1]
    ELSE IF IsDir(t, d, DirNames[2]) /\ HasProtoc(t, d, DirNames[2])
    THEN DirNames[2]
    ELSE None

\* The loop bound off by one: six iterations.
MoreLevelsOffByOne(i) == i <= SearchDepth

\* range(5): whether the loop runs another iteration after i iterations.
MoreLevels(i) == i < SearchDepth

RECURSIVE FindFrom(_, _, _)
\* The loop of find_nanopb_dir from directory d after i iterations.
FindFrom(t, d, i) ==
    IF ~MoreLevels(i) THEN NoDir
    ELSE IF LevelMatch(t, d) # None THEN <<d, LevelMatch(t, d)>>
    ELSE IF Parent(d) = d THEN NoDir
    ELSE FindFrom(t, Parent(d), i + 1)

\* find_nanopb_dir(start_dir): the candidate found, <<level, name>>, or NoDir.
find_nanopb_dir(t, start) == FindFrom(t, start, 0)

\* --- the trees searched
\* The tree with no toolchain-named entry.
NoTree == [d \in Dirs |-> [n \in NameSet |-> "absent"]]
Slots == Dirs \X NameSet
Entries(t) == {s \in Slots : t[s[1]][s[2]] # "absent"}
\* The tree whose entries are those of f, a function from slots to kinds.
TreeOf(f) ==
    [d \in Dirs |-> [n \in NameSet |->
        IF <<d, n>> \in DOMAIN f THEN f[<<d, n>>] ELSE "absent"]]
\* The trees with at most MaxEntries toolchain-named entries.
Trees ==
    {TreeOf(f) : f \in UNION {[S -> Kinds \ {"absent"}] :
        S \in {S \in SUBSET Slots : Cardinality(S) <= MaxEntries}}}

\* --- find_nanopb_dir again, one loop iteration per step
FindIdle ==
    /\ fstart = 0 /\ fcur = 0 /\ fiter = 0 /\ fres = NoDir
    /\ fpc = "idle" /\ fseen = <<>>

\* One iteration of the outer loop (lines 50-66).
FindIter ==
    /\ fpc = "loop"
    /\ MoreLevels(fiter)
    /\ fseen' = Append(fseen, fcur)
    /\ fiter' = fiter + 1
    /\ \/ /\ LevelMatch(tree, fcur) # None
          /\ fres' = <<fcur, LevelMatch(tree, fcur)>>
          /\ fpc' = "done"
          /\ fcur' = fcur
       \/ /\ LevelMatch(tree, fcur) = None
          /\ Parent(fcur) = fcur
          /\ fres' = NoDir
          /\ fpc' = "done"
          /\ fcur' = fcur
       \/ /\ LevelMatch(tree, fcur) = None
          /\ Parent(fcur) # fcur
          /\ fcur' = Parent(fcur)
          /\ UNCHANGED <<fres, fpc>>
    /\ UNCHANGED <<tree, fstart, fsVars, mainVars, reqVars, histVars>>
    /\ UNCHANGED hookVars

\* The loop ran out of iterations (line 68).
FindExhausted ==
    /\ fpc = "loop"
    /\ ~MoreLevels(fiter)
    /\ fres' = NoDir
    /\ fpc' = "done"
    /\ UNCHANGED <<tree, fstart, fcur, fiter, fseen, fsVars, mainVars, reqVars, histVars>>
    /\ UNCHANGED hookVars

\* ------------------------------------------------ the files of a request
Protos == {"a", "b"}
\* The directory each .proto file lies in.
DirOf(p) == IF p = "a" THEN 2 ELSE 1

\* A path to a .proto file: relative (`at` counts its leading ".."
\* components) or absolute (`at` is its directory).
RelPath(k, p) == [rel |-> TRUE, at |-> k, name |-> p]
AbsPath(d, p) == [rel |-> FALSE, at |-> d, name |-> p]

\* os.path.abspath(proto_file), with working directory c
Abspath(c, path) ==
    IF path.rel THEN AbsPath(Up(c, path.at), path.name) ELSE path

\* os.path.exists(proto_file), for an absolute path
SrcExists(f) == f.name \in Protos /\ f.at = DirOf(f.name) /\ srcM[f.name] # NoFile

\* Lines 123-125 left out: a supplied options file is never checked.
EffectiveOptionsUnchecked(opt, p) ==
    IF opt = None
    THEN IF sideM[p] # NoFile THEN "side" ELSE None
    ELSE opt

\* The sidecar looked for first, whether or not an options file is supplied.
EffectiveOptionsSidecarFirst(opt, p) ==
    IF sideM[p] # NoFile THEN "side"
    ELSE IF opt = None \/ opt = "" THEN opt
    ELSE IF optM # NoFile THEN opt ELSE None

\* Lines 115-125: the options file in effect: the sidecar ("side") when none
\* is supplied and the sidecar exists, the supplied one when it exists, None
\* when the supplied one is missing, and the empty string left as it is.
EffectiveOptions(opt, p) ==
    IF opt = None
    THEN IF sideM[p] # NoFile THEN "side" ELSE None
    ELSE IF opt # ""
    THEN IF opt = "opts" /\ optM # NoFile THEN opt ELSE None
    ELSE opt

\* Line 160: os.path.getmtime(options_file) if options_file else None
\* (NoFile stands for None).
options_mtime(o, p) ==
    IF o = None \/ o = "" THEN NoFile
    ELSE IF o = "side" THEN sideM[p] ELSE optM

\* The comparisons of line 162 made with >= .
UpToDateNotStrict(h, c, s, o) ==
    /\ h # NoFile /\ c # NoFile
    /\ h >= s /\ c >= s
    /\ (o = NoFile \/ (h > o /\ c > o))

\* Line 163 without "options_mtime is None or".
UpToDateNeedsOptions(h, c, s, o) ==
    /\ h # NoFile /\ c # NoFile
    /\ h > s /\ c > s
    /\ (h > o /\ c > o /\ o # NoFile)

\* Lines 151-167 left out: every request regenerates.
UpToDateNever(h, c, s, o) == FALSE

\* Lines 155-167: whether the artifacts with times h and c are up to date
\* against the source time s and the options time o.
UpToDate(h, c, s, o) ==
    /\ h # NoFile /\ c # NoFile
    /\ h > s /\ c > s
    /\ (o = NoFile \/ (h > o /\ c > o))

\* Lines 141-147: os.path.exists(protoc_exe) for the toolchain directory n.
ProtocExists(n) == n # NoDir /\ n[2] \in NameSet /\ tree[n[1]][n[2]] = "ok"

\* No finally clause: the process stays where it is.
RestoredDirStays(original, current) == current

\* Line 213: the directory the finally clause changes to.
RestoredDir(original, current) == original

\* ------------------------------------------- generate_protobuf_files
Terminal == {"UP_TO_DATE", "SUCCEEDED", "FAILED", "RAISED"}
curName == rpath.name

ReqIdle ==
    /\ rpath = RelPath(0, "a") /\ rpc = "idle" /\ optEff = None
    /\ nanoDir = NoDir /\ origDir = Unbound /\ status = "none" /\ launches = 0

\* os.makedirs(output_dir) without exist_ok: an existing directory raises
\* FileExistsError.
makedirs_always_may_raise(out, exists) == TRUE

\* Line 113: os.makedirs(output_dir, exist_ok=True) can raise only when it
\* has a directory to create.  Without output_dir the artifacts go to the
\* source's directory, which exists.
makedirs_may_raise(out, exists) == out # None /\ ~exists

\* Lines 95-149: resolve the source, the output directory, the options file
\* and the toolchain.
Resolve ==
    /\ rpc = "PENDING"
    /\ LET f == Abspath(cwd, rpath)
           found == IF args.nanopb = NoDir
                    THEN find_nanopb_dir(tree, f.at)
                    ELSE args.nanopb
       IN  /\ rpath' = f
           /\ \/ \* line 97: the source is missing
                 /\ ~SrcExists(f)
                 /\ rpc' = "FAILED"
                 /\ UNCHANGED <<outExists, optEff, nanoDir>>
              \/ \* line 113: os.makedirs raises
                 /\ SrcExists(f)
                 /\ makedirs_may_raise(args.output, outExists)
                 /\ rpc' = "RAISED"
                 /\ UNCHANGED <<outExists, optEff, nanoDir>>
              \/ /\ SrcExists(f)
                 /\ outExists' = (args.output # None \/ outExists)
                 /\ optEff' = EffectiveOptions(args.options, f.name)
                 /\ nanoDir' = found
                 /\ rpc' = IF found = NoDir THEN "FAILED"
                           ELSE IF ~ProtocExists(found) THEN "FAILED"
                           ELSE "RESOLVED"
    /\ UNCHANGED <<tree, findVars, srcM, sideM, optM, hdrM, cppM, cwd, clock>>
    /\ UNCHANGED <<mainVars, origDir, status, launches, histVars>>
    /\ UNCHANGED hookVars

\* Lines 151-167: the staleness check.
CheckStale ==
    /\ rpc = "RESOLVED"
    /\ rpc' = IF UpToDate(hdrM[curName], cppM[curName], srcM[curName],
                          options_mtime(optEff, curName))
              THEN "UP_TO_DATE" ELSE "INVOKING"
    /\ UNCHANGED <<tree, findVars, fsVars, mainVars, histVars>>
    /\ UNCHANGED <<rpath, optEff, nanoDir, origDir, status, launches>>
    /\ UNCHANGED hookVars

\* os.chdir left out: the generator runs wherever the caller was.
proto_dir_stays(f) == cwd

\* Line 102: proto_dir = os.path.dirname(proto_file), of the absolute path.
proto_dir(f) == f.at

\* Lines 187-190: remember the working directory and enter the source's.
EnterDir ==
    /\ rpc = "INVOKING"
    /\ \/ \* os.getcwd raises: original_dir is unbound and the finally
          \* clause raises in turn
          /\ rpc' = "RAISED"
          /\ UNCHANGED <<cwd, origDir>>
       \/ \* os.chdir(proto_dir) raises: the finally clause changes back
          /\ rpc' = "RAISED"
          /\ origDir' = cwd
          /\ cwd' = RestoredDir(cwd, cwd)
       \/ /\ origDir' = cwd
          /\ cwd' = proto_dir(rpath)
          /\ rpc' = "IN_DIR"
    /\ UNCHANGED <<tree, findVars, srcM, sideM, optM, hdrM, cppM, outExists, clock>>
    /\ UNCHANGED <<mainVars, rpath, optEff, nanoDir, status, launches, histVars>>
    /\ UNCHANGED hookVars

\* Line 192: subprocess.run.  Either the process cannot be launched (an
\* OSError), or the generator runs: it writes any of the two artifacts, at
\* the current time or later, and exits with status zero or not.
RunGenerator ==
    /\ rpc = "IN_DIR"
    /\ rpc' = "RAN"
    /\ \/ /\ status' = "oserror"
          /\ UNCHANGED <<hdrM, cppM, clock, launches>>
       \/ \E wr \in SUBSET {"h", "c"}, t \in clock..MaxTime, st \in {"zero", "nonzero"} :
          /\ launches' = launches + 1
          /\ status' = st
          /\ clock' = t
          /\ hdrM' = IF "h" \in wr THEN [hdrM EXCEPT ![curName] = t] ELSE hdrM
          /\ cppM' = IF "c" \in wr THEN [cppM EXCEPT ![curName] = t] ELSE cppM
    /\ UNCHANGED <<tree, findVars, srcM, sideM, optM, outExists, cwd>>
    /\ UNCHANGED <<mainVars, rpath, optEff, nanoDir, origDir, histVars>>
    /\ UNCHANGED hookVars

\* subprocess.run without check=True: a nonzero exit raises nothing.
OutcomeUnchecked(st) == IF st = "oserror" THEN "RAISED" ELSE "SUCCEEDED"

\* Lines 192-211: how the request ends after subprocess.run(check=True):
\* return True after exit status zero, return False after the
\* CalledProcessError of a nonzero exit status, and any other exception
\* goes on to the caller.
Outcome(st) ==
    IF st = "zero" THEN "SUCCEEDED"
    ELSE IF st = "nonzero" THEN "FAILED"
    ELSE "RAISED"

\* Lines 194-213: the result, and the finally clause.
LeaveDir ==
    /\ rpc = "RAN"
    /\ cwd' = RestoredDir(origDir, cwd)
    /\ rpc' = Outcome(status)
    /\ UNCHANGED <<tree, findVars, srcM, sideM, optM, hdrM, cppM, outExists, clock>>
    /\ UNCHANGED <<mainVars, rpath, optEff, nanoDir, origDir, status, launches, histVars>>
    /\ UNCHANGED hookVars

Request == Resolve \/ CheckStale \/ EnterDir \/ RunGenerator \/ LeaveDir

\* What generate_protobuf_files returned, for a request that returned.
Returned(outcome) == outcome \in {"UP_TO_DATE", "SUCCEEDED"}

\* The call of generate_protobuf_files(path, ...).
Call(path) ==
    /\ rpc = "idle"
    /\ rpath' = path
    /\ rpc' = "PENDING"
    /\ optEff' = None /\ nanoDir' = NoDir /\ origDir' = Unbound
    /\ status' = "none" /\ launches' = 0
    /\ cwdBefore' = cwd
    /\ fsBefore' = Files

\* The request is over: its locals are gone.
Return(outcome) ==
    /\ rpc' = "idle"
    /\ rpath' = RelPath(0, "a") /\ optEff' = None /\ nanoDir' = NoDir
    /\ origDir' = Unbound /\ status' = "none" /\ launches' = 0
    /\ outcomes' = Append(outcomes, outcome)

\* ------------------------------------------------------------------ main
\* Line 320: success = success and proto_success
Aggregate(acc, r) == acc /\ r

\* Line 322: sys.exit(0 if success else 1)
ExitStatus(ok) == IF ok THEN 0 ELSE 1

\* Lines 308-310: nothing matched.
MainNoFiles ==
    /\ mpc = "loop" /\ rpc = "idle"
    /\ matched = <<>>
    /\ mpc' = "exit"
    /\ exitCode' = 1
    /\ UNCHANGED <<tree, findVars, fsVars, args, matched, idx, success, calls>>
    /\ UNCHANGED <<reqVars, histVars>>
    /\ UNCHANGED hookVars

\* Lines 313-319: the loop calls generate_protobuf_files on the next file.
MainCall ==
    /\ mpc = "loop"
    /\ idx <= Len(matched)
    /\ Call(matched[idx])
    /\ attempts' = Append(attempts, idx)
    /\ UNCHANGED <<tree, findVars, fsVars, mainVars, outcomes>>
    /\ UNCHANGED hookVars

\* Line 320: the request returned.
MainCollect ==
    /\ mpc = "loop"
    /\ rpc \in Terminal \ {"RAISED"}
    /\ success' = Aggregate(success, Returned(rpc))
    /\ idx' = idx + 1
    /\ Return(rpc)
    /\ UNCHANGED <<tree, findVars, fsVars, args, matched, mpc, exitCode, calls>>
    /\ UNCHANGED <<cwdBefore, fsBefore, attempts>>
    /\ UNCHANGED hookVars

\* The request raised: nothing in main catches it, the interpreter prints
\* the traceback and exits with status 1.
MainAbort ==
    /\ mpc = "loop"
    /\ rpc = "RAISED"
    /\ mpc' = "exit"
    /\ exitCode' = 1
    /\ Return(rpc)
    /\ UNCHANGED <<tree, findVars, fsVars, args, matched, idx, success, calls>>
    /\ UNCHANGED <<cwdBefore, fsBefore, attempts>>
    /\ UNCHANGED hookVars

\* Line 322: the loop is over.
MainExit ==
    /\ mpc = "loop" /\ rpc = "idle"
    /\ matched # <<>>
    /\ idx > Len(matched)
    /\ mpc' = "exit"
    /\ exitCode' = ExitStatus(success)
    /\ UNCHANGED <<tree, findVars, fsVars, args, matched, idx, success, calls>>
    /\ UNCHANGED <<reqVars, histVars>>
    /\ UNCHANGED hookVars

\* ------------------------------------------- the pre-build action
\* The build targets an action can be attached to.
Targets == {"t1", "t2"}
\* What the environment passed to an action is: None, an object without a
\* subst method, or a construction environment.
EnvKinds == {None, "plain", "scons"}

\* The source path that is None.
NoPath == [rel |-> FALSE, at |-> 0 - 1, name |-> None]

\* env.subst on a string: the construction variables of the text are
\* replaced by their values ("$a" stands for a text with variables that
\* expands to the name "a"), other text is left as it is.
Subst(text) ==
    IF text = "$a" THEN "a"
    ELSE IF text = "$opts" THEN "opts"
    ELSE IF text = "$out" THEN "out"
    ELSE IF text = "$nanopb" THEN "nanopb"
    ELSE text

\* env.subst on a source path and on a toolchain directory path.
SubstPath(f) == [f EXCEPT !.name = Subst(f.name)]
SubstDir(n) == <<n[1], Subst(n[2])>>

\* _expand_with_env without the call of env.subst.
expand_without_subst(e, value, absent, substituted) == value

\* Lines 71-76: _expand_with_env(env, value), for a value whose None is
\* absent and whose env.subst(value) is substituted; only a construction
\* environment is not None and has a subst method.
expand_with_env(e, value, absent, substituted) ==
    IF value = absent THEN absent
    ELSE IF e = "scons" THEN substituted
    ELSE value

\* Lines 216-231: the action generate_protobufs returns is the closure of
\* its four parameters.
generate_protobufs(proto_path, options_path, output_dir, nanopb_dir) ==
    [proto |-> proto_path, options |-> options_path,
     output |-> output_dir, nanopb |-> nanopb_dir]

\* env.AddPreAction(target, action)
AddPreAction(p, target, action) == [p EXCEPT ![target] = Append(@, action)]

\* The loop of lines 245-246 stopping after the first target.
AddPreActionsFirstOnly(p, targets, action) ==
    IF targets = <<>> THEN p ELSE AddPreAction(p, Head(targets), action)

RECURSIVE AddPreActions(_, _, _)
\* Lines 245-246: for target in object_target: env.AddPreAction(target, action)
AddPreActions(p, targets, action) ==
    IF targets = <<>> THEN p
    ELSE AddPreActions(AddPreAction(p, Head(targets), action), Tail(targets), action)

\* Lines 234-252: register_protobufs.
Register ==
    /\ mpc = "hook"
    /\ regpc = "start"
    /\ IF env = None
       THEN \* line 240: raise ValueError
            /\ regpc' = "raised"
            /\ pre' = pre
       ELSE LET action == generate_protobufs(params.proto, params.options,
                                             params.output, params.nanopb)
            IN  /\ regpc' = "done"
                /\ pre' = IF object_target.coll
                          THEN AddPreActions(pre, object_target.items, action)
                          ELSE AddPreAction(pre, object_target.items[1], action)
    /\ UNCHANGED <<env, object_target, params, aenv, invoked, hookRet>>
    /\ UNCHANGED <<tree, findVars, fsVars, mainVars, reqVars, histVars>>

\* Lines 219-229: the scheduler invokes the k-th action attached to target
\* t, which expands its parameters and calls generate_protobuf_files.
ActionCallOn(t, k) ==
    /\ mpc = "hook"
    /\ regpc = "done"
    /\ calls < MaxCalls
    /\ k \in 1..Len(pre[t])
    /\ LET a == pre[t][k]
           resolved_proto ==
               expand_with_env(aenv, a.proto, NoPath, SubstPath(a.proto))
           resolved_options ==
               expand_with_env(aenv, a.options, None, Subst(a.options))
           resolved_output ==
               expand_with_env(aenv, a.output, None, Subst(a.output))
           resolved_nanopb ==
               expand_with_env(aenv, a.nanopb, NoDir, SubstDir(a.nanopb))
       IN  /\ args' = [options |-> resolved_options, output |-> resolved_output,
                       nanopb |-> resolved_nanopb]
           /\ Call(resolved_proto)
    /\ calls' = calls + 1
    /\ attempts' = Append(attempts, calls + 1)
    /\ invoked' = Append(invoked, t)
    /\ UNCHANGED <<tree, findVars, fsVars, matched, idx, success, mpc, exitCode>>
    /\ UNCHANGED <<outcomes, env, object_target, params, regpc, pre, aenv, hookRet>>

ActionCall == \E t \in Targets : \E k \in 1..Len(pre[t]) : ActionCallOn(t, k)

\* The action without its return statement.
action_result_none(outcome) == IF outcome = "RAISED" THEN "raise" ELSE None

\* Lines 224-229: return generate_protobuf_files(...): the action returns
\* the boolean it got, and an exception goes on to the scheduler.
action_result(outcome) ==
    IF outcome = "RAISED" THEN "raise"
    ELSE IF Returned(outcome) THEN "True" ELSE "False"

\* Lines 224-229: the request is over and the action returns.
ActionReturn ==
    /\ mpc = "hook"
    /\ rpc \in Terminal
    /\ Return(rpc)
    /\ hookRet' = Append(hookRet, action_result(rpc))
    /\ UNCHANGED <<tree, findVars, fsVars, mainVars, cwdBefore, fsBefore, attempts>>
    /\ UNCHANGED <<env, object_target, params, regpc, pre, aenv, invoked>>

\* ------------------------------------------------------- initial states
\* The tree with one entry, of kind k, named "nanopb" in the root.
RootTree(k) == [NoTree EXCEPT ![0]["nanopb"] = k]

RECURSIVE SeqsUpTo(_, _)
\* The sequences over S of length at most n.
SeqsUpTo(S, n) ==
    IF n = 0 THEN {<<>>}
    ELSE LET shorter == SeqsUpTo(S, n - 1)
         IN  shorter \cup {Append(q, x) : q \in shorter, x \in S}

HistInit ==
    /\ cwdBefore = cwd /\ fsBefore = Files
    /\ attempts = <<>> /\ outcomes = <<>>

\* No build hook: nothing is registered and no action is invoked.
NoHook ==
    /\ env = None /\ aenv = None
    /\ object_target = [coll |-> FALSE, items |-> <<>>]
    /\ params = generate_protobufs(RelPath(0, "a"), None, None, NoDir)
    /\ regpc = "none"
    /\ pre = [t \in Targets |-> <<>>]
    /\ invoked = <<>> /\ hookRet = <<>>

\* A command-line run: python gen_proto.py a.proto ../b.proto ..., started
\* in the directory of a.proto.  A matched file may be gone by the time its
\* request starts; each file's artifacts are both missing or both fresh.
Init ==
    /\ tree \in {NoTree, RootTree("ok")}
    /\ FindIdle
    /\ srcM \in [Protos -> {NoFile, 1}]
    /\ sideM = [p \in Protos |-> NoFile]
    /\ optM = NoFile
    /\ \E fresh \in SUBSET Protos :
          /\ hdrM = [p \in Protos |-> IF p \in fresh THEN 2 ELSE NoFile]
          /\ cppM = hdrM
          /\ args \in [options : {None}, output : {None, "out"}, nanopb : {NoDir}]
          /\ outExists \in BOOLEAN
          /\ args.output = None => ~outExists
          /\ (args.output # None /\ fresh # {}) => outExists
    /\ cwd = DirOf("a")
    /\ clock = 2
    /\ matched \in SeqsUpTo({RelPath(0, "a"), RelPath(1, "b")}, MaxFiles)
    /\ idx = 1 /\ success = TRUE /\ mpc = "loop" /\ exitCode = NoExit /\ calls = 0
    /\ ReqIdle
    /\ HistInit
    /\ NoHook

Next ==
    \/ MainNoFiles \/ MainCall \/ MainCollect \/ MainAbort \/ MainExit
    \/ Resolve \/ CheckStale \/ EnterDir \/ RunGenerator \/ LeaveDir

Spec == Init /\ [][Next]_vars

\* The pre-build action of one source file, invoked up to MaxCalls times
\* with the same parameters over any state of that file's inputs and
\* artifacts.
HookInit ==
    /\ tree \in {NoTree, RootTree("noexe"), RootTree("ok")}
    /\ FindIdle
    /\ srcM \in {[p \in Protos |-> IF p = "a" THEN s ELSE NoFile] : s \in {NoFile, 1}}
    /\ sideM \in {[p \in Protos |-> IF p = "a" THEN s ELSE NoFile] : s \in {NoFile, 2, 3}}
    /\ optM \in {NoFile, 1, 2}
    /\ hdrM \in {[p \in Protos |-> IF p = "a" THEN h ELSE NoFile] : h \in {NoFile} \cup 0..3}
    /\ cppM \in {[p \in Protos |-> IF p = "a" THEN c ELSE NoFile] : c \in {NoFile} \cup 0..3}
    /\ args \in [options : {None, "", "opts"}, output : {None, "out"},
                 nanopb : {NoDir, <<0, "nanopb">>}]
    /\ outExists \in BOOLEAN
    /\ args.output = None => ~outExists
    /\ (hdrM["a"] # NoFile \/ cppM["a"] # NoFile) => (args.output = None \/ outExists)
    \* what no request reads is left out
    /\ args.options # "opts" => optM = NoFile
    /\ args.options = "" => sideM["a"] = NoFile
    /\ srcM["a"] = NoFile =>
          /\ hdrM["a"] = NoFile /\ cppM["a"] = NoFile /\ sideM["a"] = NoFile
          /\ optM = NoFile /\ tree = NoTree
    /\ cwd \in {DirOf("a"), DirOf("b")}
    /\ clock = 2
    /\ matched \in {<<RelPath(0, "a")>>, <<AbsPath(DirOf("a"), "a")>>}
    /\ cwd = DirOf("a") => matched[1].rel
    /\ idx = 1 /\ success = TRUE /\ mpc = "hook" /\ exitCode = NoExit /\ calls = 0
    /\ ReqIdle
    /\ HistInit
    \* the action is registered on one target, with concrete parameters
    /\ env = "scons" /\ aenv = "scons"
    /\ object_target = [coll |-> FALSE, items |-> <<"t1">>]
    /\ params = generate_protobufs(matched[1], args.options, args.output, args.nanopb)
    /\ regpc = "start"
    /\ pre = [t \in Targets |-> <<>>]
    /\ invoked = <<>> /\ hookRet = <<>>

HookNext ==
    \/ Register \/ ActionCall \/ ActionReturn
    \/ Resolve \/ CheckStale \/ EnterDir \/ RunGenerator \/ LeaveDir

HookSpec == HookInit /\ [][HookNext]_vars

\* register_protobufs called without or with an environment, for one target
\* or a collection of at most MaxTargets targets, the source and the
\* options file written out or holding construction variables, the output
\* and toolchain directories absent or holding construction variables; then the
\* scheduler invokes attached actions, up to MaxCalls times, in any order.
\* The source and the supplied options file exist, the toolchain is in the
\* root directory and the artifacts are both missing or both fresh.
RegInit ==
    /\ tree = RootTree("ok")
    /\ FindIdle
    /\ srcM = [p \in Protos |-> IF p = "a" THEN 1 ELSE NoFile]
    /\ sideM = [p \in Protos |-> NoFile]
    /\ optM = 1
    /\ \E t \in {NoFile, 2} :
          /\ hdrM = [p \in Protos |-> IF p = "a" THEN t ELSE NoFile]
          /\ cppM = hdrM
    /\ params \in {generate_protobufs(f, o, d, n) :
                      f \in {RelPath(0, "a"), RelPath(0, "$a")},
                      o \in {None, "opts", "$opts"},
                      d \in {None, "$out"},
                      n \in {NoDir, <<0, "$nanopb">>}}
    /\ outExists = (params.output # None)
    /\ cwd = DirOf("a")
    /\ clock = MaxTime
    /\ args = [options |-> None, output |-> None, nanopb |-> NoDir]
    /\ matched = <<>>
    /\ idx = 1 /\ success = TRUE /\ mpc = "hook" /\ exitCode = NoExit /\ calls = 0
    /\ ReqIdle
    /\ HistInit
    /\ env \in {None, "scons"}
    /\ aenv \in EnvKinds
    /\ env = None => aenv = None
    /\ object_target \in
          {[coll |-> FALSE, items |-> <<t>>] : t \in Targets}
          \cup {[coll |-> TRUE, items |-> ts] : ts \in SeqsUpTo(Targets, MaxTargets)}
    /\ regpc = "start"
    /\ pre = [t \in Targets |-> <<>>]
    /\ invoked = <<>> /\ hookRet = <<>>

RegSpec == RegInit /\ [][HookNext]_vars

\* find_nanopb_dir run on its own, from any directory of any tree with at
\* most MaxEntries toolchain-named entries.
FindInit ==
    /\ tree \in Trees
    /\ fstart \in Dirs
    /\ fcur = fstart /\ fiter = 0 /\ fres = NoDir /\ fpc = "loop" /\ fseen = <<>>
    /\ srcM = [p \in Protos |-> NoFile] /\ sideM = srcM /\ hdrM = srcM /\ cppM = srcM
    /\ optM = NoFile /\ outExists = FALSE /\ cwd = 0 /\ clock = 0
    /\ args = [options |-> None, output |-> None, nanopb |-> NoDir]
    /\ matched = <<>>
    /\ idx = 1 /\ success = TRUE /\ mpc = "find" /\ exitCode = NoExit /\ calls = 0
    /\ ReqIdle
    /\ HistInit
    /\ NoHook

FindNext == FindIter \/ FindExhausted

FindSpec == FindInit /\ [][FindNext]_vars

\* ================================================================ claims

\* ---------------------------------------------------------------- C1
\* C1: when a call of generate_protobuf_files is over, however it ended,
\* the working directory is the one the call started in; so every request
\* of a run starts in the directory the run started in.
C1_CwdRestored ==
    /\ rpc \in Terminal => cwd = cwdBefore
    /\ rpc = "PENDING" => cwd = DirOf("a")

\* A request ended by the OSError of a failed launch, after the working
\* directory had been changed to another directory.
C1_Witness ==
    /\ rpc = "RAISED"
    /\ status = "oserror"
    /\ rpath.at # cwdBefore
    /\ cwd = cwdBefore

\* ---------------------------------------------------------------- C2
\* C2: a run attempts every matched file once, in matched order, whatever
\* the earlier requests did, and exits 0 exactly when every request
\* succeeded.
C2_AllAttempted ==
    (mpc = "exit" /\ matched # <<>>) =>
        /\ attempts = [i \in 1..Len(matched) |-> i]
        /\ Len(outcomes) = Len(matched)
        /\ (exitCode = 0) <=>
              (\A i \in 1..Len(outcomes) : outcomes[i] \in {"UP_TO_DATE", "SUCCEEDED"})

\* ---------------------------------------------------------------- C3
\* C3: an unexpected I/O error inside one request fails that request only:
\* the run still processes every remaining file and ends in failure.
C3_ErrorIsLocal ==
    (mpc = "exit" /\ \E i \in 1..Len(outcomes) : outcomes[i] = "RAISED") =>
        /\ Len(attempts) = Len(matched)
        /\ exitCode # 0


\* ------------------------------------------------- C4, C5, C6, C7, C10
\* The modification time of the options file the request's parameters
\* bring into effect: the sidecar when none is supplied, the supplied file
\* otherwise; NoFile when that file does not exist.
InputOptionsTime ==
    IF args.options = None THEN sideM[curName]
    ELSE IF args.options = "opts" THEN optM
    ELSE NoFile

\* Both artifacts exist and are strictly newer than the source and than
\* the options file in effect.
ArtifactsFresh ==
    /\ hdrM[curName] # NoFile /\ cppM[curName] # NoFile
    /\ hdrM[curName] > srcM[curName] /\ cppM[curName] > srcM[curName]
    /\ InputOptionsTime # NoFile =>
          /\ hdrM[curName] > InputOptionsTime
          /\ cppM[curName] > InputOptionsTime

\* The toolchain directory the request resolved holds the generator.
ToolchainReady == nanoDir # NoDir /\ tree[nanoDir[1]][nanoDir[2]] = "ok"

\* The request did not get as far as subprocess.run.
NothingRun == launches = 0 /\ status = "none"

\* ---------------------------------------------------------------- C4
\* C4: the staleness check skips regeneration exactly when both artifacts
\* exist, both are strictly newer than the source and, with an options file
\* in effect, both are strictly newer than it.
C4_SkipIffFresh ==
    rpc \in {"UP_TO_DATE", "INVOKING"} =>
        LET h == hdrM[curName]
            c == cppM[curName]
            s == srcM[curName]
            o == IF optEff = "side" THEN sideM[curName] ELSE optM
        IN  (rpc = "UP_TO_DATE") <=>
                /\ h # NoFile /\ c # NoFile
                /\ h > s /\ c > s
                /\ optEff \in {"side", "opts"} => (h > o /\ c > o)

\* Both artifacts newer than the source, the header only as old as the
\* supplied options file, the implementation file newer: regeneration.
C4_Witness ==
    /\ rpc = "INVOKING"
    /\ optEff = "opts"
    /\ hdrM[curName] > srcM[curName] /\ cppM[curName] > srcM[curName]
    /\ hdrM[curName] = optM
    /\ cppM[curName] > optM

\* ---------------------------------------------------------------- C5
\* C5 as claimed: a request for an existing source whose artifacts are
\* fresh reports up to date, and never runs the generator.
C5_FreshReportsUpToDate ==
    /\ (rpc \in {"INVOKING", "IN_DIR"} /\ SrcExists(rpath)) => ~ArtifactsFresh
    /\ (rpc \in Terminal /\ NothingRun /\ SrcExists(rpath) /\ ArtifactsFresh)
          => rpc = "UP_TO_DATE"

\* C5 as amended: a request for an existing source whose artifacts are
\* fresh never runs the generator; it reports up to date when a toolchain
\* directory is resolved that holds the generator, and fails otherwise.
C5_FreshNeverInvokes ==
    /\ (rpc \in {"INVOKING", "IN_DIR"} /\ SrcExists(rpath)) => ~ArtifactsFresh
    /\ (rpc \in Terminal /\ NothingRun /\ SrcExists(rpath) /\ ArtifactsFresh)
          => /\ rpc \in {"UP_TO_DATE", "FAILED"}
             /\ (rpc = "UP_TO_DATE") <=> ToolchainReady

\* Fresh artifacts against a supplied options file: up to date, nothing run.
C5_Witness ==
    /\ rpc = "UP_TO_DATE"
    /\ optEff = "opts"
    /\ ArtifactsFresh
    /\ NothingRun

\* ---------------------------------------------------------------- C6
\* A supplied options file that does not exist.
OptionsMissing == args.options = "opts" /\ optM = NoFile

\* C6 as claimed, of the requests that return: a request whose source file
\* or whose supplied options file does not exist fails at once, and no
\* generator is run for it.
C6_MissingInputFails ==
    (rpc \in {"UP_TO_DATE", "SUCCEEDED", "FAILED"}
        /\ (~SrcExists(rpath) \/ OptionsMissing))
        => (rpc = "FAILED" /\ NothingRun)

\* C6 as amended: a request whose source file does not exist fails at once
\* and runs nothing; a supplied options file that does not exist is only
\* dropped: the request goes on with no options file in effect, not even
\* the sidecar.
C6_MissingSourceFails ==
    /\ (rpc \in Terminal /\ ~SrcExists(rpath)) => (rpc = "FAILED" /\ NothingRun)
    /\ (rpc \notin {"idle", "PENDING"} /\ SrcExists(rpath) /\ OptionsMissing)
          => optEff = None

\* The supplied options file is missing, the sidecar is there, and the
\* generator has run and succeeded.
C6_Witness ==
    /\ rpc = "SUCCEEDED"
    /\ OptionsMissing
    /\ sideM[curName] # NoFile
    /\ launches = 1

\* ---------------------------------------------------------------- C7
\* The state of the request's state machine.
State(r) == IF r \in {"INVOKING", "IN_DIR", "RAN"} THEN "INVOKING" ELSE r

\* The steps of PENDING -> RESOLVED -> {UP_TO_DATE | INVOKING ->
\* {SUCCEEDED | FAILED}}, a failure to resolve going to FAILED.
Allowed ==
    {<<"idle", "PENDING">>,
     <<"PENDING", "RESOLVED">>, <<"PENDING", "FAILED">>,
     <<"RESOLVED", "UP_TO_DATE">>, <<"RESOLVED", "INVOKING">>,
     <<"INVOKING", "INVOKING">>,
     <<"INVOKING", "SUCCEEDED">>, <<"INVOKING", "FAILED">>,
     <<"UP_TO_DATE", "idle">>, <<"SUCCEEDED", "idle">>, <<"FAILED", "idle">>}

\* C7: every step of a request is a step of the state machine; the
\* generator is launched only for an existing source, with a resolved
\* toolchain holding the generator, after the staleness check found the
\* artifacts stale; a request without such a toolchain fails with nothing
\* run.
C7_StateMachine ==
    [][/\ rpc' # rpc => <<State(rpc), State(rpc')>> \in Allowed
       /\ launches' = launches + 1 =>
             /\ State(rpc) = "INVOKING"
             /\ SrcExists(rpath)
             /\ ToolchainReady
             /\ ~ArtifactsFresh
       /\ (rpc = "PENDING" /\ rpc' \in Terminal /\ SrcExists(rpath') /\ outExists'
             /\ ~(nanoDir' # NoDir /\ tree[nanoDir'[1]][nanoDir'[2]] = "ok"))
             => (rpc' = "FAILED" /\ launches' = 0)]_vars

\* ---------------------------------------------------------------- C10
\* C10: the output directory exists whenever the generator is launched,
\* and no request reports up to date right after a failed request with the
\* same parameters.
C10_FailureLeavesStale ==
    /\ rpc \in {"IN_DIR", "RAN"} => (args.output = None \/ outExists)
    /\ (rpc = "UP_TO_DATE" /\ outcomes # <<>>)
          => outcomes[Len(outcomes)] \notin {"FAILED", "RAISED"}

\* ---------------------------------------------------------------- C8
\* C8: find_nanopb_dir returns the candidate of the nearest level, from
\* the start directory upward, that has a toolchain-named directory holding
\* the generator, "nanopb-0.4.9" before "nanopb" at the same level; a
\* directory with the right name but no generator is never returned and
\* does not stop the search.
C8_NearestValid ==
    fpc = "done" =>
        /\ fres # NoDir =>
              /\ tree[fres[1]][fres[2]] = "ok"
              /\ fres[1] <= fstart
              /\ \A d \in Dirs : \A n \in NameSet :
                    (fres[1] < d /\ d <= fstart) => tree[d][n] # "ok"
              /\ fres[2] = "nanopb" => tree[fres[1]]["nanopb-0.4.9"] # "ok"
        /\ \A d \in Dirs : \A n \in NameSet :
              (d <= fstart /\ fstart - d < 5 /\ tree[d][n] = "ok") => fres # NoDir

\* A directory without the generator one level up, the toolchain three
\* levels up: the search returned the latter.
C8_Witness ==
    /\ fpc = "done"
    /\ fstart >= 3
    /\ \E n \in NameSet :
          /\ tree[fstart - 1][n] = "noexe"
          /\ tree[fstart - 3][n] = "ok"
          /\ fres = <<fstart - 3, n>>

\* ---------------------------------------------------------------- C9
\* C9: find_nanopb_dir terminates: it examines the start directory and at
\* most its 4 nearest ancestors, one after the other, stops at the root if
\* that comes earlier, and returns None when none of the levels it examined
\* holds a toolchain, whatever lies further up.
C9_BoundedSearch ==
    /\ fpc \in {"loop", "done"} =>
          /\ Len(fseen) <= 5
          /\ Len(fseen) <= fstart + 1
          /\ \A i \in 1..Len(fseen) : fseen[i] = fstart - (i - 1)
          /\ fpc = "done" \/ ENABLED FindNext
    /\ fpc = "done" =>
          /\ (\A i \in 1..Len(fseen) : \A n \in NameSet : tree[fseen[i]][n] # "ok")
                => fres = NoDir
          /\ fres = NoDir => (Len(fseen) = 5 \/ fseen[Len(fseen)] = 0)

\* Five levels examined, none with a toolchain, one further up: None.
C9_Witness ==
    /\ fpc = "done"
    /\ fres = NoDir
    /\ Len(fseen) = 5
    /\ \E d \in Dirs : \E n \in NameSet : d < fstart - 4 /\ tree[d][n] = "ok"

\* ---------------------------------------------------------------- C11
\* C11: once the generator has run, its exit status alone decides the
\* request: a nonzero status ends it FAILED and status zero ends it
\* SUCCEEDED, whatever the generator wrote, and in both cases the working
\* directory is back where the request started.
C11_ExitStatusDecides ==
    (rpc \in Terminal /\ launches = 1) =>
        /\ status \in {"zero", "nonzero"}
        /\ status = "nonzero" => rpc = "FAILED"
        /\ status = "zero" => rpc = "SUCCEEDED"
        /\ cwd = cwdBefore

\* The generator wrote both artifacts, newer than the source, and exited
\* nonzero: the request failed, back in the directory it started in, which
\* is not the source's.
C11_Witness ==
    /\ rpc = "FAILED"
    /\ launches = 1
    /\ status = "nonzero"
    /\ hdrM[curName] > srcM[curName] /\ cppM[curName] > srcM[curName]
    /\ cwd = cwdBefore
    /\ cwd # DirOf(curName)

\* ---------------------------------------------------------------- C14
\* C14: while the generator is being launched and while it runs, the working
\* directory is the directory that holds the source file, whatever the
\* working directory of the caller and whatever the output directory.
C14_LaunchedInSourceDir ==
    rpc \in {"IN_DIR", "RAN"} =>
        /\ srcM[curName] # NoFile
        /\ ~rpath.rel
        /\ cwd = DirOf(curName)

\* The caller is in another directory than the source and the artifacts go
\* to a separate output directory.
C14_Witness ==
    /\ rpc = "IN_DIR"
    /\ cwdBefore # DirOf(curName)
    /\ args.output = "out"
    /\ cwd = DirOf(curName)

\* ---------------------------------------------------------------- C15
\* C15: a request that ends UP_TO_DATE has launched nothing and has left
\* the working directory, the output directory and every file time as they
\* were when it was called; the requests repeated after it on the unchanged
\* filesystem end UP_TO_DATE too.
C15_UpToDateIsInert ==
    /\ rpc = "UP_TO_DATE" =>
          /\ <<srcM, sideM, optM, hdrM, cppM, outExists>> = fsBefore
          /\ cwd = cwdBefore
          /\ launches = 0 /\ status = "none"
    /\ \A i \in 1..Len(outcomes) :
          outcomes[i] = "UP_TO_DATE" =>
             /\ i < Len(outcomes) => outcomes[i + 1] = "UP_TO_DATE"
             /\ i = Len(outcomes) =>
                   rpc \in {"idle", "PENDING", "RESOLVED", "UP_TO_DATE"}

\* A request with a separate output directory has ended UP_TO_DATE and the
\* same request, repeated, has ended UP_TO_DATE again.
C15_Witness ==
    /\ outcomes # <<>>
    /\ outcomes[Len(outcomes)] = "UP_TO_DATE"
    /\ rpc = "UP_TO_DATE"
    /\ args.output = "out"

\* ---------------------------------------------------------------- C16
\* The last request that returned ended SUCCEEDED.
LastSucceeded ==
    outcomes # <<>> /\ outcomes[Len(outcomes)] = "SUCCEEDED"

\* When the current request was called, both artifacts existed and were
\* strictly newer than the source and than the options file in effect.
FreshAtCall ==
    LET p == curName
        s == fsBefore[1][p]
        o == IF args.options = None THEN fsBefore[2][p]
             ELSE IF args.options = "opts" THEN fsBefore[3]
             ELSE NoFile
        h == fsBefore[4][p]
        c == fsBefore[5][p]
    IN  /\ h # NoFile /\ c # NoFile
        /\ h > s /\ c > s
        /\ o # NoFile => (h > o /\ c > o)

\* C16: when a request has ended SUCCEEDED and left both artifacts strictly
\* newer than the source and the options file in effect, the same request
\* made again ends UP_TO_DATE without launching the generator.  Exit status
\* zero ends a request SUCCEEDED even when an artifact is missing.
C16_SuccessThenUpToDate ==
    /\ (LastSucceeded /\ rpc \notin {"idle", "PENDING"} /\ FreshAtCall) =>
          /\ rpc \in {"RESOLVED", "UP_TO_DATE"}
          /\ launches = 0 /\ status = "none"
    /\ (rpc \in Terminal /\ status = "zero"
          /\ (hdrM[curName] = NoFile \/ cppM[curName] = NoFile)) =>
          rpc = "SUCCEEDED"

\* The request after a successful one has ended UP_TO_DATE on the artifacts
\* it found.
C16_Witness ==
    /\ LastSucceeded
    /\ FreshAtCall
    /\ rpc = "UP_TO_DATE"
    /\ launches = 0

\* ---------------------------------------------------------------- C17
\* C17: with no options file supplied the sidecar is the options file in
\* effect when it exists, and none is otherwise; a supplied options file
\* that exists is the only one in effect, and the staleness check compares
\* the artifacts with it and the source alone, whatever the sidecar's time.
C17_OptionsChoice ==
    LET p == curName
        h == hdrM[p]
        c == cppM[p]
        newer(t) == h # NoFile /\ c # NoFile /\ h > t /\ c > t
    IN  /\ (rpc \in {"RESOLVED", "UP_TO_DATE", "INVOKING"} /\ args.options = None) =>
              /\ sideM[p] # NoFile => optEff = "side"
              /\ sideM[p] = NoFile => optEff = None
        /\ (rpc \in {"RESOLVED", "UP_TO_DATE", "INVOKING"}
              /\ args.options = "opts" /\ optM # NoFile) =>
              optEff = "opts"
        /\ (rpc \in {"UP_TO_DATE", "INVOKING"} /\ args.options = None) =>
              (rpc = "UP_TO_DATE" <=>
                  /\ newer(srcM[p])
                  /\ sideM[p] # NoFile => newer(sideM[p]))
        /\ (rpc \in {"UP_TO_DATE", "INVOKING"}
              /\ args.options = "opts" /\ optM # NoFile) =>
              (rpc = "UP_TO_DATE" <=> (newer(srcM[p]) /\ newer(optM)))

\* An options file is supplied and exists, the sidecar was modified after
\* both artifacts were written, and the request is up to date.
C17_Witness ==
    /\ rpc = "UP_TO_DATE"
    /\ args.options = "opts" /\ optM # NoFile
    /\ sideM[curName] > hdrM[curName]
    /\ sideM[curName] > cppM[curName]

\* ---------------------------------------------------------------- C12
RECURSIVE Occurrences(_, _)
\* How many times target t is in the sequence ts.
Occurrences(t, ts) ==
    IF ts = <<>> THEN 0
    ELSE (IF Head(ts) = t THEN 1 ELSE 0) + Occurrences(t, Tail(ts))

\* C12: register_protobufs without an environment raises and attaches
\* nothing; with one, it attaches one and the same action, made of its
\* parameters, once for every target of the collection, or once to the
\* single target.  Invoking attached actions detaches and attaches nothing,
\* and the action of any target can be the next one invoked.
C12_AttachedToEach ==
    /\ regpc = "start" => \A t \in Targets : pre[t] = <<>>
    /\ regpc \in {"done", "raised"} => (regpc = "raised" <=> env = None)
    /\ regpc = "raised" =>
          /\ \A t \in Targets : pre[t] = <<>>
          /\ invoked = <<>> /\ rpc = "idle"
    /\ regpc = "done" =>
          \A t \in Targets :
             /\ Len(pre[t]) = Occurrences(t, object_target.items)
             /\ \A k \in 1..Len(pre[t]) :
                   pre[t][k] = [proto |-> params.proto, options |-> params.options,
                                output |-> params.output, nanopb |-> params.nanopb]
             /\ (pre[t] # <<>> /\ rpc = "idle" /\ calls < MaxCalls) =>
                   ENABLED ActionCallOn(t, 1)
    /\ (regpc = "done" /\ ~object_target.coll) =>
          \E t \in Targets :
             /\ Len(pre[t]) = 1
             /\ \A u \in Targets \ {t} : pre[u] = <<>>

\* The action is attached to both targets of a collection, and the action
\* of the second target has been invoked, and has returned, before any
\* invocation of the first one's.
C12_Witness ==
    /\ regpc = "done"
    /\ object_target = [coll |-> TRUE, items |-> <<"t1", "t2">>]
    /\ Len(pre["t1"]) = 1 /\ Len(pre["t2"]) = 1
    /\ invoked = <<"t2">>
    /\ Len(hookRet) = 1

\* ---------------------------------------------------------------- C13
\* Texts that still hold construction variables.
Unexpanded == {"$a", "$opts", "$out", "$nanopb"}

\* What generate_protobuf_files is called with is what env.subst makes of
\* each parameter of the action, and None for each parameter that is None.
PassedResolved ==
    /\ rpc = "PENDING" =>
          /\ rpath.rel = params.proto.rel /\ rpath.at = params.proto.at
          /\ rpath.name = Subst(params.proto.name)
          /\ rpath.name \notin Unexpanded
    /\ args.options = (IF params.options = None THEN None ELSE Subst(params.options))
    /\ args.output = (IF params.output = None THEN None ELSE Subst(params.output))
    /\ args.nanopb = (IF params.nanopb = NoDir THEN NoDir
                      ELSE <<params.nanopb[1], Subst(params.nanopb[2])>>)
    /\ args.options \notin Unexpanded /\ args.output \notin Unexpanded
    /\ args.nanopb[2] \notin Unexpanded

\* Each invocation returned True when its request ended UP_TO_DATE or
\* SUCCEEDED, False when it ended FAILED, and raised when it raised.
ReturnsWhatItGot ==
    /\ Len(hookRet) = Len(outcomes)
    /\ \A i \in 1..Len(hookRet) :
          /\ hookRet[i] = "True" <=> outcomes[i] \in {"UP_TO_DATE", "SUCCEEDED"}
          /\ hookRet[i] = "False" <=> outcomes[i] = "FAILED"
          /\ hookRet[i] = "raise" <=> outcomes[i] = "RAISED"

\* C13: an action invoked with an environment that has subst passes every
\* parameter to generate_protobuf_files expanded by env.subst, and None as
\* None; the steps of the action itself (the call and the return) change no
\* file, directory or working directory; the action returns the boolean
\* generate_protobuf_files returned.
C13_ExpandsThenDelegates ==
    /\ []((aenv = "scons" /\ rpc # "idle") => PassedResolved)
    /\ []ReturnsWhatItGot
    /\ [][(rpc = "idle" \/ rpc' = "idle") => UNCHANGED <<tree, fsVars>>]_vars

\* Source, options file and toolchain directory are given with construction
\* variables and the output directory is not given; the environment has
\* subst; the generator ran and the action returned True.
C13_Witness ==
    /\ aenv = "scons"
    /\ params.proto.name = "$a" /\ params.options = "$opts"
    /\ params.output = None /\ params.nanopb = <<0, "$nanopb">>
    /\ rpc = "idle"
    /\ hookRet # <<>> /\ hookRet[1] = "True"
    /\ outcomes[1] = "SUCCEEDED"
    /\ args.options = "opts" /\ args.output = None /\ args.nanopb = <<0, "nanopb">>

====
